---- MODULE Spec2Model ----
(***************************************************************************)
(* Model of the msgvault release installers (public/install.ps1 for        *)
(* Windows, install.sh for POSIX).  Strings are sequences of one-character *)
(* strings so that prefix stripping, splitting, trimming and letter case   *)
(* are computed the way the scripts compute them.                          *)
(***************************************************************************)
EXTENDS Integers, Sequences, FiniteSets, TLC

(***************************************************************************)
(* Bounds of the model.                                                    *)
(***************************************************************************)
\* longest filename field fed to the normalisation on its own
MaxNameLen == 4
\* most lines in a SHA256SUMS manifest
MaxLines == 2
\* longest PATH value / directory drawn for Add-ToPath on its own
MaxPathLen == 3
\* how many times the PATH-integration step is run in a row
MaxPathRuns == 3

(***************************************************************************)
(* Characters and strings.                                                 *)
(***************************************************************************)
UpperChars == <<"A","B","C","D","E","F","G","H","I","J","K","L","M",
                "N","O","P","Q","R","S","T","U","V","W","X","Y","Z">>
LowerChars == <<"a","b","c","d","e","f","g","h","i","j","k","l","m",
                "n","o","p","q","r","s","t","u","v","w","x","y","z">>

ToLowerChar(c) ==
    IF \E i \in DOMAIN UpperChars : UpperChars[i] = c
    THEN LowerChars[CHOOSE i \in DOMAIN UpperChars : UpperChars[i] = c]
    ELSE c

ToUpperChar(c) ==
    IF \E i \in DOMAIN LowerChars : LowerChars[i] = c
    THEN UpperChars[CHOOSE i \in DOMAIN LowerChars : LowerChars[i] = c]
    ELSE c

\* String.ToLower()
ToLower(s) == [i \in DOMAIN s |-> ToLowerChar(s[i])]
ToUpper(s) == [i \in DOMAIN s |-> ToUpperChar(s[i])]

\* PowerShell -eq / -ieq on strings: case-insensitive
PsEq(a, b) == ToLower(a) = ToLower(b)

\* \s of the regular expressions, and awk's field separators
IsWs(c) == c \in {" ", "\t"}

StartsWith(s, p) == Len(s) >= Len(p) /\ SubSeq(s, 1, Len(p)) = p

\* -replace '^p', '' : one occurrence, at the start only
StripPrefix(s, p) == IF StartsWith(s, p) THEN SubSeq(s, Len(p) + 1, Len(s)) ELSE s

RECURSIVE LStripWs(_)
LStripWs(s) == IF s = <<>> \/ ~IsWs(Head(s)) THEN s ELSE LStripWs(Tail(s))

RECURSIVE TakeWord(_)
TakeWord(s) == IF s = <<>> \/ IsWs(Head(s)) THEN <<>> ELSE <<Head(s)>> \o TakeWord(Tail(s))

RECURSIVE DropWord(_)
DropWord(s) == IF s = <<>> \/ IsWs(Head(s)) THEN s ELSE DropWord(Tail(s))

\* all strings over alphabet A of length at most n
StringsUpTo(A, n) == UNION {[1..k -> A] : k \in 0..n}

(***************************************************************************)
(* Test-EnvBool: $val -match '^(1|true|yes)$'.  -match ignores letter case *)
(* and $ also matches before one final newline; an unset variable is $null *)
(* and never matches.                                                      *)
(***************************************************************************)
Null == <<"$null">>

TestEnvBool_CaseSensitive(val) ==
    /\ val # Null
    /\ LET w == IF Len(val) > 0 /\ val[Len(val)] = "\n"
                THEN SubSeq(val, 1, Len(val) - 1) ELSE val
       IN  w \in {<<"1">>, <<"t","r","u","e">>, <<"y","e","s">>}

TestEnvBool(val) ==
    /\ val # Null
    /\ LET w == IF Len(val) > 0 /\ val[Len(val)] = "\n"
                THEN SubSeq(val, 1, Len(val) - 1) ELSE val
       IN  ToLower(w) \in {<<"1">>, <<"t","r","u","e">>, <<"y","e","s">>}

(***************************************************************************)
(* Manifest filename normalisation.                                        *)
(***************************************************************************)
\* install.ps1: three -replace steps, each applied once, in this order
NormalizePs(filename) ==
    StripPrefix(StripPrefix(StripPrefix(filename, <<"*">>), <<".", "/">>), <<".", "\\">>)

\* install.sh: gsub(/^\*/, "", $2): the anchored pattern matches once
NormalizeSh(filename) == StripPrefix(filename, <<"*">>)

(***************************************************************************)
(* Manifest parsing and entry selection.                                   *)
(***************************************************************************)
\* '^\s*$'
IsBlankLine(line) == \A i \in DOMAIN line : IsWs(line[i])

\* $line -split '\s+', 2 : <<first>> when the line holds no whitespace,
\* else <<text before the first whitespace run, everything after that run>>
PsSplit2(line) ==
    IF DropWord(line) = <<>> THEN <<line>>
    ELSE <<TakeWord(line), LStripWs(DropWord(line))>>

\* the hashes of the lines install.ps1 collects in $matchingLines
RECURSIVE PsMatchingLines(_, _)
PsMatchingLines(lines, archiveName) ==
    IF lines = <<>> THEN <<>>
    ELSE LET line  == Head(lines)
             parts == PsSplit2(line)
             rest  == PsMatchingLines(Tail(lines), archiveName)
         IN  IF IsBlankLine(line) THEN rest
             ELSE IF Len(parts) < 2 THEN rest
             ELSE IF PsEq(NormalizePs(parts[2]), archiveName) THEN <<parts[1]>> \o rest
             ELSE rest

\* awk's $1 and $2: fields separated by runs of blanks, leading blanks ignored
AwkField1(line) == TakeWord(LStripWs(line))
AwkField2(line) == TakeWord(LStripWs(DropWord(LStripWs(line))))

\* awk '{gsub(/^\*/, "", $2); if ($2==f) {print $1; exit}}' : the first
\* matching line's hash, <<>> (empty output) when no line matches
RECURSIVE ShExpected(_, _)
ShExpected(lines, filename) ==
    IF lines = <<>> THEN <<>>
    ELSE IF NormalizeSh(AwkField2(Head(lines))) = filename THEN AwkField1(Head(lines))
    ELSE ShExpected(Tail(lines), filename)

(***************************************************************************)
(* Names.                                                                  *)
(***************************************************************************)
Msgvault == <<"m","s","g","v","a","u","l","t">>
TarGz    == <<".","t","a","r",".","g","z">>
Windows  == <<"w","i","n","d","o","w","s">>
Linux    == <<"l","i","n","u","x">>
Darwin   == <<"d","a","r","w","i","n">>
Amd64    == <<"a","m","d","6","4">>
Arm64    == <<"a","r","m","6","4">>
I386     == <<"3","8","6">>
Und      == <<"_">>

\* $version.TrimStart('v'): every leading v is removed
RECURSIVE TrimStartV(_)
TrimStartV(s) == IF s # <<>> /\ Head(s) = "v" THEN TrimStartV(Tail(s)) ELSE s

\* ${version#v}: one leading v is removed
StripOneV(s) == StripPrefix(s, <<"v">>)

\* "msgvault_${versionNum}_windows_${arch}.tar.gz"
PsArchiveName(version, arch) ==
    Msgvault \o Und \o TrimStartV(version) \o Und \o Windows \o Und \o arch \o TarGz

\* "${BINARY_NAME}_${version#v}_${os}_${arch}.tar.gz"
ShArchiveName(version, os, arch) ==
    Msgvault \o Und \o StripOneV(version) \o Und \o os \o Und \o arch \o TarGz

(***************************************************************************)
(* Platform detection.                                                     *)
(***************************************************************************)
\* What Windows reports: $env:PROCESSOR_ARCHITECTURE, the name of
\* RuntimeInformation.OSArchitecture ("throws" where the type is missing)
\* and Environment.Is64BitOperatingSystem.
PsReports ==
    { [env |-> "ARM64", os |-> "Arm64",  is64 |-> TRUE],
      [env |-> "AMD64", os |-> "X64",    is64 |-> TRUE],
      [env |-> "x86",   os |-> "X86",    is64 |-> FALSE],
      [env |-> "AMD64", os |-> "Arm64",  is64 |-> TRUE],
      [env |-> "ARM",   os |-> "Arm",    is64 |-> FALSE],
      [env |-> "AMD64", os |-> "throws", is64 |-> TRUE],
      [env |-> "x86",   os |-> "throws", is64 |-> FALSE] }

GetArchitecture(r) ==
    IF r.env = "ARM64" THEN Arm64
    ELSE CASE r.os = "X64"    -> Amd64
           [] r.os = "X86"    -> I386
           [] r.os = "Arm64"  -> Arm64
           [] r.os = "throws" -> (IF r.is64 THEN Amd64 ELSE I386)
           [] OTHER           -> Amd64

\* What uname -s and uname -m print.
ShReports ==
    { [s |-> "Linux",   m |-> "x86_64"],
      [s |-> "Darwin",  m |-> "arm64"],
      [s |-> "Linux",   m |-> "i686"],
      [s |-> "FreeBSD", m |-> "amd64"],
      [s |-> "FreeBSD", m |-> "riscv64"] }

\* $(detect_os): error() exits the command substitution only, so an
\* unsupported OS leaves the empty string in $os
DetectOs(s) ==
    CASE s = "Darwin" -> Darwin
      [] s = "Linux"  -> Linux
      [] OTHER        -> <<>>

DetectArch(m) ==
    CASE m \in {"x86_64", "amd64"}  -> Amd64
      [] m \in {"aarch64", "arm64"} -> Arm64
      [] OTHER                      -> <<>>

(***************************************************************************)
(* Add-ToPath.                                                             *)
(***************************************************************************)
\* $s -split ';' : the entries between the semicolons, empty ones included
RECURSIVE SplitSemi(_)
SplitSemi(s) ==
    IF \A i \in DOMAIN s : s[i] # ";" THEN <<s>>
    ELSE LET k == CHOOSE i \in DOMAIN s :
                      s[i] = ";" /\ \A j \in 1..(i - 1) : s[j] # ";"
         IN  <<SubSeq(s, 1, k - 1)>> \o SplitSemi(SubSeq(s, k + 1, Len(s)))

\* .TrimEnd('\', '/')
RECURSIVE TrimEndSep(_)
TrimEndSep(s) ==
    IF s # <<>> /\ s[Len(s)] \in {"\\", "/"} THEN TrimEndSep(SubSeq(s, 1, Len(s) - 1))
    ELSE s

\* $_.TrimEnd('\', '/') -ieq $normalizedDir
EntryMatches(entry, normalizedDir) == PsEq(TrimEndSep(entry), normalizedDir)

\* $currentPath -split ';' | Where-Object { ... } : the entries that pass
AlreadyInPath(currentPath, dir) ==
    LET nd == TrimEndSep(dir)
        Pass(e) == EntryMatches(e, nd)
    IN  SelectSeq(SplitSemi(currentPath), Pass)

\* if ($alreadyInPath): nothing is false, one string is true unless it is
\* empty, two or more are true
PsTruthy(items) ==
    \/ Len(items) >= 2
    \/ Len(items) = 1 /\ items[1] # <<>>

\* Add-ToPath without the test of $alreadyInPath
AddToPath_Always(currentPath, dir) ==
    [changed |-> TRUE, path |-> currentPath \o <<";">> \o dir]

\* Add-ToPath: the value returned and the persisted user PATH afterwards
AddToPath(currentPath, dir) ==
    IF PsTruthy(AlreadyInPath(currentPath, dir))
    THEN [changed |-> FALSE, path |-> currentPath]
    ELSE [changed |-> TRUE,  path |-> currentPath \o <<";">> \o dir]

(***************************************************************************)
(* What the environment can supply to one installer run.                   *)
(***************************************************************************)
\* release tags the release index can answer with
Tags == { <<"v","1",".","2",".","0">> }

\* SHA-256 values of the downloaded archive, as lower-case hex
Digests == { <<"a","b">>, <<"c","d">> }

\* Get-FileHash prints upper-case hex; sha256sum and shasum print lower-case
GetFileHash(digest) == ToUpper(digest)
Sha256sum(digest) == digest

\* values of MSGVAULT_SKIP_CHECKSUM
EnvValues ==
    { Null, <<"0">>, <<"1">>, <<"t","r","u","e">>, <<"y","e","s">>,
      <<"T","R","U","E">>, <<"Y","e","s">>, <<"1","\n">> }

\* values of MSGVAULT_NO_MODIFY_PATH
NoModValues == { Null, <<"1">> }

\* hash fields and filename decorations of manifest lines
ManifestHashes == { <<"a","b">>, <<"A","B">>, <<"a","d">> }
Decorations == { <<>>, <<"*">>, <<".","/">>, <<".","\\">> }
OtherFile == <<"o","t","h","e","r",".","t","x","t">>

\* the lines a manifest can hold when the expected archive is f
ManifestLines(f) ==
    { <<"a","b"," "," ">> \o d \o f : d \in Decorations }
      \cup { h \o <<" "," ">> \o f : h \in ManifestHashes }
      \cup { <<"c","d"," "," ">> \o OtherFile, <<>> }

Manifests(f) == UNION { [1..n -> ManifestLines(f)] : n \in 0..MaxLines }

\* the shape of what tar leaves in the temporary directory
Trees == {"top", "nested", "absent"}

InstallDir == <<"C",":","\\","m","v","\\","b","i","n">>
SessionPath0 == <<"C",":","\\","W">>
UserPaths == { <<>>, <<"C",":","\\","W">>, <<"c",":","\\","M","V","\\","b","i","n","\\">> }

Msg(kind, a, b) == [kind |-> kind, a |-> a, b |-> b]
Note(kind) == Msg(kind, <<>>, <<>>)

VARIABLES
    installer,     \* "ps1" or "sh"
    pc,            \* the step the run is at
    exitCode,      \* "running", then "0" or "1"
    pending,       \* the exit code a cleanup handler will end the run with
    out,           \* what the run has written, in order
    net,           \* the network requests made, in order
    reported,      \* what the platform reported
    os, arch, version, archiveName,
    installDirExists, installDirExists0, destBinary, destBinary0,
    tmpDir,        \* "none", "exists", "removed"
    archiveDigest, \* digest of the downloaded archive, Null before
    manifest,      \* lines of the downloaded SHA256SUMS, Null when there is none
    skipVal,       \* MSGVAULT_SKIP_CHECKSUM in the run's environment
    verified,      \* the archive hash was compared with the manifest's and found equal
    shaTool,       \* sha256sum, shasum or none (POSIX)
    tree,          \* "none" before extraction, else a member of Trees
    tarStatus,     \* "none", "ok", "failed"
    noModVal, userPath0, userPath, sessionPath, pathUpdated,
    \* the pure functions on their own
    name, normPs, normSh, pathRuns, pathDir, pathLog,
    nameIn,        \* the tag, OS and architecture the names are derived from
    nameOut,       \* <<>>, then the names both installers derive
    \* wait_until of the screenshot script
    wTimeout,      \* $timeout
    wElapsed,      \* $elapsed
    wPc,           \* "idle", "poll", "sleep", "returned"
    wRet,          \* "none", then the return status "0" or "1"
    wPolls,        \* how many times the pane was captured and searched
    wSeen,         \* the last poll found the pattern
    wWarned,       \* the timeout warning was written
    \* the screenshot script
    hIp,           \* index in Script of the next command, 0 when not running
    hStatus,       \* "idle", "running", then the exit status "0" or "1"
    hKeys,         \* how many times keys were sent to the session
    hShots,        \* how many screenshots were captured
    hKilled,       \* tmux kill-session was run
    hTimedOut,     \* a wait_until of this run returned 1
    \* the lightbox script of the documentation pages
    lbPhase,       \* "idle", "loading" (before DOMContentLoaded), "ready"
    lbOverlays,    \* the overlay elements created so far, in order
    lbKeydown,     \* the keydown listeners of document: the overlay each closes over
    lbElems,       \* the [data-lightbox] and .hero-html elements
    lbSwaps,       \* how many page swaps there were
    lbOpens,       \* how many click listeners the last click on an element ran
    lbLast         \* the last user event since the overlay shown was made, and the image clicked

runVars == <<installer, pc, exitCode, pending, out, net, reported, os, arch, version,
             archiveName, installDirExists, installDirExists0, destBinary, destBinary0,
             tmpDir,
             archiveDigest, manifest, skipVal, verified, shaTool, tree, tarStatus,
             noModVal, userPath0, userPath, sessionPath, pathUpdated>>
normVars == <<name, normPs, normSh>>
pathVars == <<pathRuns, pathDir, pathLog>>
nameVars == <<nameIn, nameOut>>
waitVars == <<wTimeout, wElapsed, wPc, wRet, wPolls, wSeen, wWarned>>
harnessVars == <<hIp, hStatus, hKeys, hShots, hKilled, hTimedOut>>
boxVars == <<lbPhase, lbOverlays, lbKeydown, lbElems, lbSwaps, lbOpens, lbLast>>
funVars == <<normVars, pathVars, nameVars, waitVars, harnessVars, boxVars>>
vars == <<runVars, funVars>>

envVars == <<installer, installDirExists0, destBinary0, skipVal>>

NormIdle == name = <<>> /\ normPs = <<>> /\ normSh = <<>>
PathIdle == pathRuns = 0 /\ pathDir = <<>> /\ pathLog = <<>>
NameIdle == nameIn = <<>> /\ nameOut = <<>>
WaitIdle ==
    /\ wTimeout = 0 /\ wElapsed = 0 /\ wPc = "idle" /\ wRet = "none"
    /\ wPolls = 0 /\ wSeen = FALSE /\ wWarned = FALSE
HarnessIdle ==
    /\ hIp = 0 /\ hStatus = "idle" /\ hKeys = 0 /\ hShots = 0
    /\ hKilled = FALSE /\ hTimedOut = FALSE

BoxIdle ==
    /\ lbPhase = "idle" /\ lbOverlays = <<>> /\ lbKeydown = <<>>
    /\ lbElems = <<>> /\ lbSwaps = 0 /\ lbOpens = 0
    /\ lbLast = [kind |-> "none", img |-> [src |-> "", alt |-> ""]]

\* every part but the named one is at rest
FunIdleBut(part) ==
    /\ IF part = "norm" THEN TRUE ELSE NormIdle
    /\ IF part = "path" THEN TRUE ELSE PathIdle
    /\ IF part = "name" THEN TRUE ELSE NameIdle
    /\ IF part = "wait" THEN TRUE ELSE WaitIdle
    /\ IF part = "harness" THEN TRUE ELSE HarnessIdle
    /\ IF part = "box" THEN TRUE ELSE BoxIdle

FunIdle == FunIdleBut("none")

RunInit ==
    /\ installer \in {"ps1", "sh"}
    /\ pc = "start"
    /\ exitCode = "running"
    /\ pending = "none"
    /\ out = <<>>
    /\ net = <<>>
    /\ reported = Null
    /\ os = <<>> /\ arch = <<>> /\ version = Null /\ archiveName = <<>>
    /\ destBinary0 \in {"none", "old"}
    /\ destBinary = destBinary0
    /\ installDirExists0 \in BOOLEAN
    /\ (destBinary0 = "old" => installDirExists0)
    /\ installDirExists = installDirExists0
    /\ tmpDir = "none"
    /\ archiveDigest = Null
    /\ manifest = Null
    /\ skipVal \in (IF installer = "ps1" THEN EnvValues ELSE {Null})
    /\ verified = FALSE
    /\ shaTool = "none"
    /\ tree = "none"
    /\ tarStatus = "none"
    /\ noModVal = Null /\ userPath0 = Null /\ userPath = Null
    /\ sessionPath = SessionPath0
    /\ pathUpdated = FALSE

Init == RunInit /\ FunIdle

Emit(msgs) == out' = out \o msgs
Request(what) == net' = Append(net, what)

(***************************************************************************)
(* install.ps1: Install-Msgvault, one action per step.                     *)
(***************************************************************************)
\* exit 1 or an uncaught throw outside the try block: the process ends
PsDie(msgs) ==
    /\ Emit(msgs)
    /\ pc' = "done"
    /\ exitCode' = "1"
    /\ UNCHANGED pending

\* exit 1 or a throw inside the try block: the finally block runs first
PsAbort(msgs) ==
    /\ Emit(msgs)
    /\ pc' = "finally"
    /\ pending' = "1"
    /\ UNCHANGED exitCode

PsDetect ==
    /\ installer = "ps1" /\ pc = "start"
    /\ \E r \in PsReports :
         /\ reported' = r
         /\ arch' = GetArchitecture(r)
         /\ IF GetArchitecture(r) = I386
            THEN PsDie(<<Note("info:platform"), Note("err:32-bit")>>)
            ELSE /\ Emit(<<Note("info:platform")>>)
                 /\ pc' = "version"
                 /\ UNCHANGED <<exitCode, pending>>
    /\ UNCHANGED <<envVars, net, os, version, archiveName, installDirExists, destBinary,
                   tmpDir, archiveDigest, manifest, verified, shaTool, tree, tarStatus,
                   noModVal, userPath0, userPath, sessionPath, pathUpdated, funVars>>

\* Get-LatestVersion, then the names, the install directory and the
\* temporary directory (lines 121-139)
PsResolve ==
    /\ installer = "ps1" /\ pc = "version"
    /\ Request("release-index")
    /\ \E t \in Tags \cup {Null} :
         IF t = Null
         THEN /\ PsDie(<<Note("throw:latest-version")>>)
              /\ UNCHANGED <<version, archiveName, installDirExists, tmpDir>>
         ELSE /\ version' = t
              /\ archiveName' = PsArchiveName(t, arch)
              /\ installDirExists' = TRUE
              /\ tmpDir' = "exists"
              /\ Emit(<<Note("info:version"), Note("info:install-dir")>>)
              /\ pc' = "download"
              /\ UNCHANGED <<exitCode, pending>>
    /\ UNCHANGED <<envVars, reported, os, arch, destBinary, archiveDigest, manifest,
                   verified, shaTool, tree, tarStatus, noModVal, userPath0, userPath,
                   sessionPath, pathUpdated, funVars>>

PsDownloadArchive ==
    /\ installer = "ps1" /\ pc = "download"
    /\ Request("archive")
    /\ \E d \in Digests \cup {Null} :
         /\ archiveDigest' = d
         /\ IF d = Null
            THEN PsAbort(<<Note("info:downloading"), Note("throw:download")>>)
            ELSE /\ Emit(<<Note("info:downloading")>>)
                 /\ pc' = "checkskip"
                 /\ UNCHANGED <<exitCode, pending>>
    /\ UNCHANGED <<envVars, reported, os, arch, version, archiveName, installDirExists,
                   destBinary, tmpDir, manifest, verified, shaTool, tree, tarStatus,
                   noModVal, userPath0, userPath, sessionPath, pathUpdated, funVars>>

PsCheckSkip ==
    /\ installer = "ps1" /\ pc = "checkskip"
    /\ IF TestEnvBool(skipVal)
       THEN /\ Emit(<<Note("warn:skip-checksum")>>)
            /\ pc' = "extract"
       ELSE /\ Emit(<<Note("info:verifying")>>)
            /\ pc' = "manifest"
    /\ UNCHANGED <<envVars, exitCode, pending, net, reported, os, arch, version,
                   archiveName, installDirExists, destBinary, tmpDir, archiveDigest,
                   manifest, verified, shaTool, tree, tarStatus, noModVal, userPath0,
                   userPath, sessionPath, pathUpdated, funVars>>

PsManifestFailed_Continue ==
    /\ Emit(<<Note("err:manifest-download"), Note("err:hint-skip")>>)
    /\ pc' = "extract"
    /\ UNCHANGED <<exitCode, pending>>

\* the catch block of lines 157-161
PsManifestFailed == PsAbort(<<Note("err:manifest-download"), Note("err:hint-skip")>>)

PsDownloadManifest ==
    /\ installer = "ps1" /\ pc = "manifest"
    /\ Request("manifest")
    /\ \E m \in Manifests(archiveName) \cup {Null} :
         /\ manifest' = m
         /\ IF m = Null
            THEN PsManifestFailed
            ELSE /\ pc' = "verify"
                 /\ UNCHANGED <<exitCode, pending, out>>
    /\ UNCHANGED <<envVars, reported, os, arch, version, archiveName, installDirExists,
                   destBinary, tmpDir, archiveDigest, verified, shaTool, tree, tarStatus,
                   noModVal, userPath0, userPath, sessionPath, pathUpdated, funVars>>

\* $actualHash -ne $expectedHash.ToLower()
PsHashDiffers(actualHash, expectedHash) == ~PsEq(actualHash, ToLower(expectedHash))

\* lines 163-201
PsVerify ==
    /\ installer = "ps1" /\ pc = "verify"
    /\ LET matchingLines == PsMatchingLines(manifest, archiveName)
           expectedHash  == matchingLines[1]
           actualHash    == ToLower(GetFileHash(archiveDigest))
       IN  IF Len(matchingLines) = 0
           THEN PsAbort(<<Note("err:no-checksum"), Note("err:hint-skip")>>) /\ UNCHANGED verified
           ELSE IF Len(matchingLines) > 1
           THEN PsAbort(<<Note("err:multiple-entries")>>) /\ UNCHANGED verified
           ELSE IF PsHashDiffers(actualHash, expectedHash)
           THEN PsAbort(<<Msg("err:mismatch", expectedHash, actualHash)>>) /\ UNCHANGED verified
           ELSE /\ verified' = TRUE
                /\ Emit(<<Note("info:verified")>>)
                /\ pc' = "extract"
                /\ UNCHANGED <<exitCode, pending>>
    /\ UNCHANGED <<envVars, net, reported, os, arch, version, archiveName,
                   installDirExists, destBinary, tmpDir, archiveDigest, manifest, shaTool,
                   tree, tarStatus, noModVal, userPath0, userPath, sessionPath,
                   pathUpdated, funVars>>

\* lines 204-215: tar is looked up, run, and its exit code checked
PsExtract ==
    /\ installer = "ps1" /\ pc = "extract"
    /\ \E haveTar \in BOOLEAN, st \in {"ok", "failed"}, t \in Trees :
         IF ~haveTar
         THEN /\ PsAbort(<<Note("info:extracting"), Note("err:no-tar")>>)
              /\ UNCHANGED <<tree, tarStatus>>
         ELSE /\ tree' = t
              /\ tarStatus' = st
              /\ IF st = "failed"
                 THEN PsAbort(<<Note("info:extracting"), Note("err:tar-failed")>>)
                 ELSE /\ Emit(<<Note("info:extracting")>>)
                      /\ pc' = "place"
                      /\ UNCHANGED <<exitCode, pending>>
    /\ UNCHANGED <<envVars, net, reported, os, arch, version, archiveName,
                   installDirExists, destBinary, tmpDir, archiveDigest, manifest, verified,
                   shaTool, noModVal, userPath0, userPath, sessionPath, pathUpdated,
                   funVars>>

\* Get-ChildItem -Recurse -Filter $binaryName | Select-Object -First 1
PsBinaryFound(t) == t \in {"top", "nested"}

\* lines 217-235: the binary is located, an existing one removed, the new
\* one moved to the destination
PsPlace ==
    /\ installer = "ps1" /\ pc = "place"
    /\ IF ~PsBinaryFound(tree)
       THEN PsAbort(<<Note("err:binary-not-found")>>) /\ UNCHANGED destBinary
       ELSE /\ destBinary' = "new"
            /\ Emit(<<Note("info:complete")>>)
            /\ pc' = "path"
            /\ UNCHANGED <<exitCode, pending>>
    /\ UNCHANGED <<envVars, net, reported, os, arch, version, archiveName,
                   installDirExists, tmpDir, archiveDigest, manifest, verified, shaTool,
                   tree, tarStatus, noModVal, userPath0, userPath, sessionPath,
                   pathUpdated, funVars>>

\* lines 237-252: PATH integration unless MSGVAULT_NO_MODIFY_PATH is set
PsPath ==
    /\ installer = "ps1" /\ pc = "path"
    /\ \E nm \in NoModValues, up \in UserPaths :
         /\ noModVal' = nm
         /\ userPath0' = up
         /\ IF TestEnvBool(nm)
            THEN /\ userPath' = up
                 /\ Emit(<<Note("info:get-started")>>)
                 /\ UNCHANGED <<sessionPath, pathUpdated>>
            ELSE LET r == AddToPath(up, InstallDir)
                 IN  /\ userPath' = r.path
                     /\ pathUpdated' = r.changed
                     /\ sessionPath' = IF r.changed
                                       THEN sessionPath \o <<";">> \o InstallDir
                                       ELSE sessionPath
                     /\ Emit(IF r.changed
                             THEN <<Note("info:added-to-path"), Note("warn:restart-terminal"),
                                    Note("info:get-started")>>
                             ELSE <<Note("info:already-in-path"), Note("info:get-started")>>)
    /\ pc' = "finally"
    /\ pending' = "0"
    /\ UNCHANGED <<envVars, exitCode, net, reported, os, arch, version, archiveName,
                   installDirExists, destBinary, tmpDir, archiveDigest, manifest, verified,
                   shaTool, tree, tarStatus, funVars>>

\* Remove-Item -Recurse -Force -ErrorAction SilentlyContinue: a removal
\* that fails is not reported and leaves the directory
RemoveOutcomes == {"removed", "exists"}

\* the finally block, lines 254-259
PsFinally ==
    /\ installer = "ps1" /\ pc = "finally"
    /\ tmpDir' \in (IF tmpDir = "exists" THEN RemoveOutcomes ELSE {tmpDir})
    /\ pc' = "done"
    /\ exitCode' = pending
    /\ UNCHANGED <<envVars, pending, out, net, reported, os, arch, version, archiveName,
                   installDirExists, destBinary, archiveDigest, manifest, verified,
                   shaTool, tree, tarStatus, noModVal, userPath0, userPath, sessionPath,
                   pathUpdated, funVars>>

PsNext ==
    \/ PsDetect \/ PsResolve \/ PsDownloadArchive \/ PsCheckSkip \/ PsDownloadManifest
    \/ PsVerify \/ PsExtract \/ PsPlace \/ PsPath \/ PsFinally

(***************************************************************************)
(* install.sh: main and install_from_release, one action per step.         *)
(***************************************************************************)
ShaTools == {"sha256sum", "shasum", "none"}

\* error(), or return 1 answered by main's error(), once the EXIT trap is set
ShAbort(msgs) ==
    /\ Emit(msgs)
    /\ pc' = "trap"
    /\ pending' = "1"
    /\ UNCHANGED exitCode

\* main, lines 167-173.  detect_os and detect_arch run in command
\* substitutions, so their error() ends the substitution and not the script;
\* find_install_dir creates $HOME/.local/bin unless /usr/local/bin is writable
ShDetect ==
    /\ installer = "sh" /\ pc = "start"
    /\ \E r \in ShReports, usrLocalWritable \in BOOLEAN :
         /\ usrLocalWritable => installDirExists
         /\ reported' = r
         /\ os' = DetectOs(r.s)
         /\ arch' = DetectArch(r.m)
         /\ Emit((IF DetectOs(r.s) = <<>> THEN <<Note("err:unsupported-os")>> ELSE <<>>)
                 \o (IF DetectArch(r.m) = <<>> THEN <<Note("err:unsupported-arch")>> ELSE <<>>)
                 \o <<Note("info:platform"), Note("info:install-dir")>>)
    /\ installDirExists' = TRUE
    /\ pc' = "version"
    /\ UNCHANGED <<envVars, exitCode, pending, net, version, archiveName, destBinary,
                   tmpDir, archiveDigest, manifest, verified, shaTool, tree, tarStatus,
                   noModVal, userPath0, userPath, sessionPath, pathUpdated, funVars>>

\* install_from_release, lines 111-125: the tag, the names, mktemp -d and
\* the EXIT trap; an empty tag returns 1 and main's error() exits
ShResolve ==
    /\ installer = "sh" /\ pc = "version"
    /\ Request("release-index")
    /\ \E t \in Tags \cup {Null} :
         IF t = Null
         THEN /\ Emit(<<Note("info:fetching"), Note("err:installation-failed")>>)
              /\ pc' = "done"
              /\ exitCode' = "1"
              /\ UNCHANGED <<version, archiveName, tmpDir>>
         ELSE /\ version' = t
              /\ archiveName' = ShArchiveName(t, os, arch)
              /\ tmpDir' = "exists"
              /\ Emit(<<Note("info:fetching"), Note("info:version")>>)
              /\ pc' = "download"
              /\ UNCHANGED exitCode
    /\ UNCHANGED <<envVars, pending, reported, os, arch, installDirExists, destBinary,
                   archiveDigest, manifest, verified, shaTool, tree, tarStatus, noModVal,
                   userPath0, userPath, sessionPath, pathUpdated, funVars>>

\* the release holds an archive only for a recognised OS and architecture
ShArchiveOffered == IF os # <<>> /\ arch # <<>> THEN Digests ELSE {}

ShDownloadArchive ==
    /\ installer = "sh" /\ pc = "download"
    /\ Request("archive")
    /\ \E d \in ShArchiveOffered \cup {Null} :
         /\ archiveDigest' = d
         /\ IF d = Null
            THEN ShAbort(<<Note("info:downloading"), Note("err:installation-failed")>>)
            ELSE /\ Emit(<<Note("info:downloading")>>)
                 /\ pc' = "manifest"
                 /\ UNCHANGED <<exitCode, pending>>
    /\ UNCHANGED <<envVars, reported, os, arch, version, archiveName, installDirExists,
                   destBinary, tmpDir, manifest, verified, shaTool, tree, tarStatus,
                   noModVal, userPath0, userPath, sessionPath, pathUpdated, funVars>>

\* lines 133-137: a manifest that cannot be downloaded is a warning
ShDownloadManifest ==
    /\ installer = "sh" /\ pc = "manifest"
    /\ Request("manifest")
    /\ \E m \in Manifests(archiveName) \cup {Null} :
         /\ manifest' = m
         /\ IF m = Null
            THEN /\ Emit(<<Note("warn:no-manifest")>>)
                 /\ pc' = "extract"
            ELSE /\ pc' = "verify"
                 /\ UNCHANGED out
    /\ UNCHANGED <<envVars, exitCode, pending, reported, os, arch, version, archiveName,
                   installDirExists, destBinary, tmpDir, archiveDigest, verified, shaTool,
                   tree, tarStatus, noModVal, userPath0, userPath, sessionPath,
                   pathUpdated, funVars>>

\* [ "$expected" != "$actual" ]
ShHashDiffers(expected, actual) == expected # actual

\* verify_checksum
ShVerifyChecksum ==
    /\ installer = "sh" /\ pc = "verify"
    /\ LET expected == ShExpected(manifest, archiveName)
           actual   == Sha256sum(archiveDigest)
       IN  IF manifest = Null
           THEN /\ Emit(<<Note("warn:no-checksum-file")>>)
                /\ pc' = "extract"
                /\ UNCHANGED <<exitCode, pending, verified, shaTool>>
           ELSE IF expected = <<>>
           THEN /\ Emit(<<Note("warn:no-checksum")>>)
                /\ pc' = "extract"
                /\ UNCHANGED <<exitCode, pending, verified, shaTool>>
           ELSE \E tool \in ShaTools :
                /\ shaTool' = tool
                /\ IF tool = "none"
                   THEN /\ Emit(<<Note("warn:no-sha256-tool")>>)
                        /\ pc' = "extract"
                        /\ UNCHANGED <<exitCode, pending, verified>>
                   ELSE IF ShHashDiffers(expected, actual)
                   THEN ShAbort(<<Msg("err:mismatch", expected, actual)>>)
                        /\ UNCHANGED verified
                   ELSE /\ verified' = TRUE
                        /\ Emit(<<Note("info:verified")>>)
                        /\ pc' = "extract"
                        /\ UNCHANGED <<exitCode, pending>>
    /\ UNCHANGED <<envVars, net, reported, os, arch, version, archiveName,
                   installDirExists, destBinary, tmpDir, archiveDigest, manifest, tree,
                   tarStatus, noModVal, userPath0, userPath, sessionPath, pathUpdated,
                   funVars>>

\* lines 139-140.  install_from_release is called as the condition of an
\* if, where set -e does not apply: tar's status is not looked at
ShExtract ==
    /\ installer = "sh" /\ pc = "extract"
    /\ \E st \in {"ok", "failed"}, t \in Trees :
         /\ tree' = t
         /\ tarStatus' = st
    /\ Emit(<<Note("info:extracting")>>)
    /\ pc' = "install"
    /\ UNCHANGED <<envVars, exitCode, pending, net, reported, os, arch, version,
                   archiveName, installDirExists, destBinary, tmpDir, archiveDigest,
                   manifest, verified, shaTool, noModVal, userPath0, userPath,
                   sessionPath, pathUpdated, funVars>>

\* [ -f "$tmpdir/${BINARY_NAME}" ]
ShBinaryFound(t) == t = "top"

\* lines 142-159, then main, lines 175-196
ShInstall ==
    /\ installer = "sh" /\ pc = "install"
    /\ IF ShBinaryFound(tree)
       THEN /\ destBinary' = "new"
            /\ Emit(<<Note("info:installed"), Note("info:complete"), Note("info:get-started")>>)
            /\ pc' = "trap"
            /\ pending' = "0"
            /\ UNCHANGED exitCode
       ELSE ShAbort(<<Note("err:binary-not-found")>>) /\ UNCHANGED destBinary
    /\ UNCHANGED <<envVars, net, reported, os, arch, version, archiveName,
                   installDirExists, tmpDir, archiveDigest, manifest, verified, shaTool,
                   tree, tarStatus, noModVal, userPath0, userPath, sessionPath,
                   pathUpdated, funVars>>

\* trap "rm -rf $tmpdir" EXIT: rm's failure is not looked at
ShExitTrap ==
    /\ installer = "sh" /\ pc = "trap"
    /\ tmpDir' \in (IF tmpDir = "exists" THEN RemoveOutcomes ELSE {tmpDir})
    /\ pc' = "done"
    /\ exitCode' = pending
    /\ UNCHANGED <<envVars, pending, out, net, reported, os, arch, version, archiveName,
                   installDirExists, destBinary, archiveDigest, manifest, verified,
                   shaTool, tree, tarStatus, noModVal, userPath0, userPath, sessionPath,
                   pathUpdated, funVars>>

ShNext ==
    \/ ShDetect \/ ShResolve \/ ShDownloadArchive \/ ShDownloadManifest
    \/ ShVerifyChecksum \/ ShExtract \/ ShInstall \/ ShExitTrap

Next == PsNext \/ ShNext

Spec == Init /\ [][Next]_vars

(***************************************************************************)
(* The normalisation and Add-ToPath on their own: the inputs are drawn     *)
(* from all short strings and the function is applied again and again to   *)
(* its own result.                                                         *)
(***************************************************************************)
RunIdle ==
    /\ installer = "none" /\ pc = "idle" /\ exitCode = "running" /\ pending = "none"
    /\ out = <<>> /\ net = <<>> /\ reported = Null
    /\ os = <<>> /\ arch = <<>> /\ version = Null /\ archiveName = <<>>
    /\ installDirExists = FALSE /\ installDirExists0 = FALSE
    /\ destBinary = "none" /\ destBinary0 = "none"
    /\ tmpDir = "none" /\ archiveDigest = Null /\ manifest = Null /\ skipVal = Null
    /\ verified = FALSE /\ shaTool = "none" /\ tree = "none" /\ tarStatus = "none"
    /\ noModVal = Null /\ userPath0 = Null /\ userPath = Null
    /\ sessionPath = SessionPath0 /\ pathUpdated = FALSE

NameChars == {"*", ".", "/", "\\", "f"}

NormInit ==
    /\ RunIdle
    /\ FunIdleBut("norm")
    /\ name \in StringsUpTo(NameChars, MaxNameLen)
    /\ normPs = <<>> /\ normSh = <<>>

\* normalise the name, then the result, then the result of that
NormalizeStep ==
    /\ pc = "idle"
    /\ Len(normPs) < 2
    /\ normPs' = Append(normPs, NormalizePs(IF normPs = <<>> THEN name ELSE normPs[Len(normPs)]))
    /\ normSh' = Append(normSh, NormalizeSh(IF normSh = <<>> THEN name ELSE normSh[Len(normSh)]))
    /\ UNCHANGED <<runVars, name, pathVars, nameVars, waitVars, harnessVars, boxVars>>

SpecNorm == NormInit /\ [][NormalizeStep]_vars

PathChars == {"a", "A", "\\", "/", ";"}

\* pathLog[1] is the user PATH before the first run, pathLog[k+1] what
\* the k-th run of Add-ToPath returned and left persisted
PathInit ==
    /\ RunIdle
    /\ FunIdleBut("path")
    /\ pathRuns = 0
    /\ pathDir \in StringsUpTo(PathChars, MaxPathLen) \ {<<>>}
    /\ \E p \in StringsUpTo(PathChars, MaxPathLen) :
         pathLog = <<[changed |-> FALSE, path |-> p]>>

AddToPathStep ==
    /\ pc = "idle"
    /\ pathRuns < MaxPathRuns
    /\ pathRuns' = pathRuns + 1
    /\ pathLog' = Append(pathLog, AddToPath(pathLog[Len(pathLog)].path, pathDir))
    /\ UNCHANGED <<runVars, normVars, pathDir, nameVars, waitVars, harnessVars, boxVars>>

SpecPath == PathInit /\ [][AddToPathStep]_vars

(***************************************************************************)
(* The names on their own: both installers derive the version, the archive *)
(* name and the download URL from one tag.                                 *)
(***************************************************************************)
MaxTagLen == 3
TagChars == {"v", "1", "."}

\* "https://github.com/$repo/releases/download", one token
ReleaseBase == <<"https://github.com/wesm/msgvault/releases/download">>
Slash == <<"/">>

\* "https://github.com/$repo/releases/download/$version/$archiveName"
PsDownloadUrl(tag, a) == ReleaseBase \o Slash \o tag \o Slash \o PsArchiveName(tag, a)

\* "${base_url}/${filename}"
ShDownloadUrl(tag, o, a) == ReleaseBase \o Slash \o tag \o Slash \o ShArchiveName(tag, o, a)

NameInit ==
    /\ RunIdle
    /\ FunIdleBut("name")
    /\ \E t \in (StringsUpTo(TagChars, MaxTagLen) \ {<<>>}) \cup Tags,
          o \in {Linux, Darwin}, a \in {Amd64, Arm64} :
         nameIn = [tag |-> t, os |-> o, arch |-> a]
    /\ nameOut = <<>>

\* install.ps1 lines 124-126 and install_from_release lines 120-122
DeriveNames ==
    /\ pc = "idle"
    /\ DOMAIN nameOut = {}
    /\ nameOut' = [psVersion |-> TrimStartV(nameIn.tag),
                   psFile |-> PsArchiveName(nameIn.tag, nameIn.arch),
                   psUrl |-> PsDownloadUrl(nameIn.tag, nameIn.arch),
                   shVersion |-> StripOneV(nameIn.tag),
                   shFile |-> ShArchiveName(nameIn.tag, nameIn.os, nameIn.arch),
                   shUrl |-> ShDownloadUrl(nameIn.tag, nameIn.os, nameIn.arch)]
    /\ UNCHANGED <<runVars, normVars, pathVars, nameIn, waitVars, harnessVars, boxVars>>

SpecName == NameInit /\ [][DeriveNames]_vars

(***************************************************************************)
(* The screenshot script: wait_until on its own, then the whole script.    *)
(***************************************************************************)
MaxTimeout == 2
\* local timeout="${2:-30}"
DefaultTimeout == 30
Timeouts == (1..MaxTimeout) \cup {DefaultTimeout}

\* the call: local pattern, timeout, elapsed=0
WaitCall(timeout) ==
    /\ wTimeout' = timeout
    /\ wElapsed' = 0
    /\ wPc' = "poll"
    /\ wRet' = "none"
    /\ wPolls' = 0
    /\ wSeen' = FALSE
    /\ wWarned' = FALSE

WaitInit ==
    /\ RunIdle
    /\ FunIdleBut("wait")
    /\ wTimeout \in Timeouts
    /\ wElapsed = 0 /\ wPc = "poll" /\ wRet = "none"
    /\ wPolls = 0 /\ wSeen = FALSE /\ wWarned = FALSE

\* while ! tmux capture-pane -pt "$SESSION" | grep -q "$pattern": one poll;
\* a poll that finds the pattern ends the loop and the function returns 0
WaitPoll ==
    /\ wPc = "poll"
    /\ wPolls' = wPolls + 1
    /\ \E found \in BOOLEAN :
         /\ wSeen' = found
         /\ IF found
            THEN wPc' = "returned" /\ wRet' = "0"
            ELSE wPc' = "sleep" /\ wRet' = wRet
    /\ UNCHANGED <<wTimeout, wElapsed, wWarned>>
    /\ UNCHANGED <<runVars, normVars, pathVars, nameVars, harnessVars, boxVars>>

\* the loop body with the test [[ $elapsed -gt $((timeout * 2)) ]]
WaitSleep_Gt ==
    /\ wPc = "sleep"
    /\ wElapsed' = wElapsed + 1
    /\ IF wElapsed + 1 > wTimeout * 2
       THEN wWarned' = TRUE /\ wPc' = "returned" /\ wRet' = "1"
       ELSE wPc' = "poll" /\ UNCHANGED <<wWarned, wRet>>
    /\ UNCHANGED <<wTimeout, wPolls, wSeen>>
    /\ UNCHANGED <<runVars, normVars, pathVars, nameVars, harnessVars, boxVars>>

\* the loop body: sleep 0.5, elapsed + 1, and at timeout * 2 the warning
\* and return 1
WaitSleep ==
    /\ wPc = "sleep"
    /\ wElapsed' = wElapsed + 1
    /\ IF wElapsed + 1 >= wTimeout * 2
       THEN wWarned' = TRUE /\ wPc' = "returned" /\ wRet' = "1"
       ELSE wPc' = "poll" /\ UNCHANGED <<wWarned, wRet>>
    /\ UNCHANGED <<wTimeout, wPolls, wSeen>>
    /\ UNCHANGED <<runVars, normVars, pathVars, nameVars, harnessVars, boxVars>>

WaitNext == WaitPoll \/ WaitSleep

\* the shell goes on running the function until it returns
SpecWait == WaitInit /\ [][WaitNext]_vars /\ WF_vars(WaitNext)

\* the commands of the script after the helper functions, in order: tmux
\* (session set-up), send (send-keys), sleep, wait (wait_until with the
\* default timeout), capture, echo, kill (kill-session)
Script ==
    <<"tmux", "tmux", "tmux", "send", "sleep", "echo", "send", "wait",
       "sleep", "capture", "send", "wait", "sleep", "capture", "send", "sleep",
       "capture", "send", "sleep", "send", "sleep", "wait", "sleep", "send",
       "sleep", "send", "sleep", "send", "sleep", "send", "wait", "sleep",
       "capture", "send", "sleep", "send", "sleep", "send", "sleep", "send",
       "sleep", "wait", "send", "wait", "sleep", "send", "sleep", "capture",
       "send", "sleep", "send", "sleep", "send", "sleep", "wait", "sleep",
       "send", "sleep", "send", "sleep", "send", "sleep", "send", "wait",
       "sleep", "send", "wait", "sleep", "capture", "send", "wait", "sleep",
       "capture", "send", "sleep", "send", "sleep", "wait", "send", "sleep",
       "send", "sleep", "send", "sleep", "wait", "capture", "send", "wait",
       "sleep", "capture", "send", "sleep", "send", "sleep", "wait", "capture",
       "send", "sleep", "send", "sleep", "send", "sleep", "wait", "sleep",
       "send", "sleep", "send", "sleep", "send", "sleep", "send", "wait",
       "sleep", "capture", "send", "wait", "sleep", "capture", "send", "wait",
       "sleep", "capture", "send", "sleep", "capture", "send", "sleep", "capture",
       "send", "wait", "sleep", "send", "sleep", "send", "sleep", "send",
       "sleep", "send", "sleep", "send", "sleep", "send", "sleep", "capture",
       "send", "sleep", "send", "wait", "sleep", "capture", "send", "sleep",
       "send", "sleep", "echo", "send", "sleep", "send", "sleep", "send",
       "sleep", "send", "wait", "sleep", "capture", "send", "sleep", "send",
       "wait", "sleep", "capture", "kill", "echo", "echo" >>

HarnessInit ==
    /\ RunIdle
    /\ FunIdleBut("harness")
    /\ hIp = 1 /\ hStatus = "running" /\ hKeys = 0 /\ hShots = 0
    /\ hKilled = FALSE /\ hTimedOut = FALSE

HarnessAt(op) == hStatus = "running" /\ wPc = "idle" /\ hIp <= Len(Script) /\ Script[hIp] = op

\* tmux set-up, sleep and echo change nothing the properties look at
HarnessPlain ==
    /\ \/ HarnessAt("tmux") \/ HarnessAt("sleep") \/ HarnessAt("echo")
    /\ hIp' = hIp + 1
    /\ UNCHANGED <<hStatus, hKeys, hShots, hKilled, hTimedOut>>
    /\ UNCHANGED <<runVars, normVars, pathVars, nameVars, waitVars, boxVars>>

\* send: tmux send-keys
HarnessSend ==
    /\ HarnessAt("send")
    /\ hKeys' = hKeys + 1
    /\ hIp' = hIp + 1
    /\ UNCHANGED <<hStatus, hShots, hKilled, hTimedOut>>
    /\ UNCHANGED <<runVars, normVars, pathVars, nameVars, waitVars, boxVars>>

\* capture: tmux capture-pane | freeze
HarnessCapture ==
    /\ HarnessAt("capture")
    /\ hShots' = hShots + 1
    /\ hIp' = hIp + 1
    /\ UNCHANGED <<hStatus, hKeys, hKilled, hTimedOut>>
    /\ UNCHANGED <<runVars, normVars, pathVars, nameVars, waitVars, boxVars>>

\* wait_until "<pattern>": the call
HarnessWaitCall ==
    /\ HarnessAt("wait")
    /\ WaitCall(DefaultTimeout)
    /\ UNCHANGED harnessVars
    /\ UNCHANGED <<runVars, normVars, pathVars, nameVars, boxVars>>

WaitReset ==
    /\ wTimeout' = 0 /\ wElapsed' = 0 /\ wPc' = "idle" /\ wRet' = "none"
    /\ wPolls' = 0 /\ wSeen' = FALSE /\ wWarned' = FALSE

\* wait_until returned and its status is ignored (wait_until ... || true)
HarnessWaitReturn_Ignored ==
    /\ hStatus = "running" /\ wPc = "returned"
    /\ WaitReset
    /\ hTimedOut' = (hTimedOut \/ wRet = "1")
    /\ hIp' = hIp + 1
    /\ UNCHANGED <<hStatus, hKeys, hShots, hKilled>>
    /\ UNCHANGED <<runVars, normVars, pathVars, nameVars, boxVars>>

\* wait_until returned: status 0 goes on with the next command, status 1
\* of a simple command under set -e ends the script with that status
HarnessWaitReturn ==
    /\ hStatus = "running" /\ wPc = "returned"
    /\ WaitReset
    /\ IF wRet = "1"
       THEN hTimedOut' = TRUE /\ hStatus' = "1" /\ hIp' = hIp
       ELSE hIp' = hIp + 1 /\ UNCHANGED <<hTimedOut, hStatus>>
    /\ UNCHANGED <<hKeys, hShots, hKilled>>
    /\ UNCHANGED <<runVars, normVars, pathVars, nameVars, boxVars>>

\* tmux kill-session -t "$SESSION" 2>/dev/null || true
HarnessKill ==
    /\ HarnessAt("kill")
    /\ hKilled' = TRUE
    /\ hIp' = hIp + 1
    /\ UNCHANGED <<hStatus, hKeys, hShots, hTimedOut>>
    /\ UNCHANGED <<runVars, normVars, pathVars, nameVars, waitVars, boxVars>>

\* the end of the script
HarnessEnd ==
    /\ hStatus = "running" /\ wPc = "idle" /\ hIp = Len(Script) + 1
    /\ hStatus' = "0"
    /\ UNCHANGED <<hIp, hKeys, hShots, hKilled, hTimedOut>>
    /\ UNCHANGED <<runVars, normVars, pathVars, nameVars, waitVars, boxVars>>

HarnessNext ==
    \/ HarnessPlain \/ HarnessSend \/ HarnessCapture \/ HarnessKill \/ HarnessEnd
    \/ HarnessWaitCall \/ (hStatus = "running" /\ WaitPoll) \/ (hStatus = "running" /\ WaitSleep)
    \/ HarnessWaitReturn

SpecHarness == HarnessInit /\ [][HarnessNext]_vars

(***************************************************************************)
(* The lightbox script: initLightbox on DOMContentLoaded and on every      *)
(* astro:after-swap, and the listeners it registers.                       *)
(***************************************************************************)
MaxSwaps == 2
\* the nodes a page can hold for the selector [data-lightbox], .hero-html
ElemIds == {1, 2}

\* src and alt of the images on the pages; the overlay's <img> starts
\* without either
Images == { [src |-> "a.png", alt |-> "A"], [src |-> "b.png", alt |-> "B"] }
NoImage == [src |-> "", alt |-> ""]
\* no click and no key press yet since the overlay was made
NoEvent == [kind |-> "none", img |-> NoImage]

\* a node that is not in the document, and the nodes a page can hold for a
\* selector match: without an image or with one, never initialised
GoneElem == [inDoc |-> FALSE, hasImg |-> FALSE, img |-> NoImage, bound |-> FALSE, clicks |-> <<>>]
FreshElems ==
    { [inDoc |-> TRUE, hasImg |-> FALSE, img |-> NoImage, bound |-> FALSE, clicks |-> <<>>] }
      \cup { [inDoc |-> TRUE, hasImg |-> TRUE, img |-> i, bound |-> FALSE, clicks |-> <<>>] :
               i \in Images }

\* document.getElementById('lightbox-overlay'): 0 stands for null
GetOverlay(ovs) ==
    IF \E i \in DOMAIN ovs : ovs[i].inDoc
    THEN CHOOSE i \in DOMAIN ovs :
            ovs[i].inDoc /\ \A j \in DOMAIN ovs : ovs[j].inDoc => i <= j
    ELSE 0

\* initLightbox run on a document: the overlays, the keydown listeners of
\* document and the elements afterwards
InitLightbox(ovs, keys, els) ==
    LET found == GetOverlay(ovs)
        overlay == IF found = 0 THEN Len(ovs) + 1 ELSE found
    IN  [ overlays |-> IF found = 0
                       THEN Append(ovs, [inDoc |-> TRUE, display |-> "none", img |-> NoImage])
                       ELSE ovs,
          keydown |-> IF found = 0 THEN Append(keys, overlay) ELSE keys,
          elems |-> [e \in DOMAIN els |->
                       IF els[e].inDoc /\ els[e].hasImg /\ ~els[e].bound
                       THEN [els[e] EXCEPT !.bound = TRUE, !.clicks = Append(@, overlay)]
                       ELSE els[e]] ]

BoxInit ==
    /\ RunIdle
    /\ FunIdleBut("box")
    /\ lbPhase = "loading"
    /\ lbOverlays = <<>> /\ lbKeydown = <<>>
    /\ lbElems \in [ElemIds -> FreshElems \cup {GoneElem}]
    /\ lbSwaps = 0 /\ lbOpens = 0
    /\ lbLast = NoEvent

BoxFrame == UNCHANGED <<runVars, normVars, pathVars, nameVars, waitVars, harnessVars>>

\* document.addEventListener('DOMContentLoaded', initLightbox)
DomContentLoaded ==
    /\ lbPhase = "loading"
    /\ LET r == InitLightbox(lbOverlays, lbKeydown, lbElems)
       IN  /\ lbOverlays' = r.overlays
           /\ lbKeydown' = r.keydown
           /\ lbElems' = r.elems
    /\ lbPhase' = "ready"
    /\ UNCHANGED <<lbSwaps, lbOpens, lbLast>>
    /\ BoxFrame

\* the pages a swap can leave: every node stays (only one that is in the
\* document), goes, or is replaced by a fresh one; the overlay, a child of
\* body, stays or goes with the old body
SwappedElems ==
    { els \in [ElemIds -> FreshElems \cup {GoneElem} \cup {lbElems[e] : e \in ElemIds}] :
        \A e \in ElemIds : els[e] \in FreshElems \cup {GoneElem, lbElems[e]} }

\* a view-transition swap and the astro:after-swap event it dispatches:
\* document.addEventListener('astro:after-swap', initLightbox)
AstroAfterSwap ==
    /\ lbPhase = "ready"
    /\ lbSwaps < MaxSwaps
    /\ lbSwaps' = lbSwaps + 1
    /\ \E keep \in BOOLEAN, els \in SwappedElems :
         LET ovs == [i \in DOMAIN lbOverlays |->
                       [lbOverlays[i] EXCEPT !.inDoc = @ /\ keep]]
             r == InitLightbox(ovs, lbKeydown, els)
         IN  /\ lbOverlays' = r.overlays
             /\ lbKeydown' = r.keydown
             /\ lbElems' = r.elems
             /\ lbLast' = IF keep THEN lbLast ELSE NoEvent
    /\ UNCHANGED <<lbPhase, lbOpens>>
    /\ BoxFrame

\* the click listeners of one element, run in the order they were added:
\* each copies the image's src and alt to its overlay and shows it
RECURSIVE RunClicks(_, _, _)
RunClicks(ovs, clicks, img) ==
    IF clicks = <<>> THEN ovs
    ELSE RunClicks([ovs EXCEPT ![Head(clicks)].img = img, ![Head(clicks)].display = "flex"],
                   Tail(clicks), img)

\* a click on an element of the page
ClickElement ==
    /\ lbPhase = "ready"
    /\ \E e \in ElemIds :
         /\ lbElems[e].inDoc
         /\ lbOverlays' = RunClicks(lbOverlays, lbElems[e].clicks, lbElems[e].img)
         /\ lbOpens' = Len(lbElems[e].clicks)
         /\ lbLast' = IF lbElems[e].bound
                      THEN [kind |-> "element", img |-> lbElems[e].img]
                      ELSE lbLast
    /\ UNCHANGED <<lbPhase, lbKeydown, lbElems, lbSwaps>>
    /\ BoxFrame

\* a click on the overlay, which can be hit only while it is shown
ClickOverlay ==
    /\ lbPhase = "ready"
    /\ \E i \in DOMAIN lbOverlays :
         /\ lbOverlays[i].inDoc /\ lbOverlays[i].display = "flex"
         /\ lbOverlays' = [lbOverlays EXCEPT ![i].display = "none"]
    /\ lbLast' = [kind |-> "overlay", img |-> NoImage]
    /\ UNCHANGED <<lbPhase, lbKeydown, lbElems, lbSwaps, lbOpens>>
    /\ BoxFrame

\* an Escape keydown: every keydown listener of document runs
PressEscape ==
    /\ lbPhase = "ready"
    /\ lbOverlays' = [i \in DOMAIN lbOverlays |->
                        IF (\E k \in DOMAIN lbKeydown : lbKeydown[k] = i)
                           /\ lbOverlays[i].display = "flex"
                        THEN [lbOverlays[i] EXCEPT !.display = "none"]
                        ELSE lbOverlays[i]]
    /\ lbLast' = [kind |-> "escape", img |-> NoImage]
    /\ UNCHANGED <<lbPhase, lbKeydown, lbElems, lbSwaps, lbOpens>>
    /\ BoxFrame

BoxNext == DomContentLoaded \/ AstroAfterSwap \/ ClickElement \/ ClickOverlay \/ PressEscape

SpecBox == BoxInit /\ [][BoxNext]_vars

(***************************************************************************)
(* Vocabulary of the properties.                                           *)
(***************************************************************************)
Wrote(kind) == \E i \in DOMAIN out : out[i].kind = kind
Requested(what) == \E i \in DOMAIN net : net[i] = what
Placed == destBinary = "new"
\* the run has ended or is in its cleanup handler after a fatal error
Aborted == pc \in {"finally", "trap", "done"} /\ pending = "1"
VerifyError == Wrote("err:mismatch") \/ Wrote("err:no-checksum") \/ Wrote("err:multiple-entries")
ManifestRead == manifest # Null /\ pc # "verify"

\* the manifest lines that are entries for f: the filename field is f,
\* bare or behind one of the decorations
IsEntryFor(line, f) == \E d \in Decorations : AwkField2(line) = d \o f
EntriesFor(lines, f) == {i \in DOMAIN lines : IsEntryFor(lines[i], f)}
TheEntryHash(lines, f) == AwkField1(lines[CHOOSE i \in DOMAIN lines : IsEntryFor(lines[i], f)])
\* the archive's SHA-256 as the hashing tools print it
ActualHash == Sha256sum(archiveDigest)
SameIgnoringCase(a, b) == ToLower(a) = ToLower(b)

\* the toggle values the claim C9 names, and the values the script accepts
NamedToggleValues == {<<"1">>, <<"t","r","u","e">>, <<"y","e","s">>}
StripFinalNewline(v) ==
    IF Len(v) > 0 /\ v[Len(v)] = "\n" THEN SubSeq(v, 1, Len(v) - 1) ELSE v
ToggleNamed(v) == v \in NamedToggleValues
ToggleAnyCase(v) == v # Null /\ ToLower(StripFinalNewline(v)) \in NamedToggleValues

(***************************************************************************)
(* C1: with verification not opted out of, the binary is placed only after *)
(* the archive's SHA-256 was compared with the manifest's and found equal. *)
(* install.sh has no opt-out, so none of its runs is opted out.            *)
(***************************************************************************)
C1_PlacedOnlyVerified ==
    (Placed /\ ~(installer = "ps1" /\ ToggleAnyCase(skipVal))) => verified

(***************************************************************************)
(* C2: install.ps1, toggle not set, SHA256SUMS cannot be downloaded: the   *)
(* run aborts with exit code 1, nothing is extracted, and the binary at    *)
(* the destination is neither removed nor replaced.                        *)
(***************************************************************************)
C2_ManifestFailClosed ==
    (installer = "ps1" /\ ~ToggleAnyCase(skipVal) /\ Requested("manifest") /\ manifest = Null)
    => /\ Aborted
       /\ pc = "done" => exitCode = "1"
       /\ tree = "none" /\ tarStatus = "none"
       /\ destBinary = destBinary0

C2_Witness ==
    /\ installer = "ps1" /\ skipVal = Null /\ Requested("manifest") /\ manifest = Null
    /\ pc = "done" /\ exitCode = "1" /\ destBinary0 = "old" /\ destBinary = "old"

(***************************************************************************)
(* C3: a manifest with no entry or with more than one entry for the        *)
(* expected archive makes the run abort, in either installer, whatever the *)
(* hashes are.                                                             *)
(***************************************************************************)
C3_OneEntryOrAbort ==
    (ManifestRead /\ Cardinality(EntriesFor(manifest, archiveName)) # 1)
    => (Aborted /\ ~Placed)

(***************************************************************************)
(* C4: exactly one entry, hash H.  If the archive's hash equals H the run  *)
(* goes on to extraction; if it differs (in more than letter case) the run *)
(* aborts, both values are printed and nothing is installed.               *)
(***************************************************************************)
C4_HashDecides ==
    (ManifestRead /\ Cardinality(EntriesFor(manifest, archiveName)) = 1)
    => LET H == TheEntryHash(manifest, archiveName)
       IN  /\ H = ActualHash => ~VerifyError
           /\ ~SameIgnoringCase(H, ActualHash)
                => /\ Aborted /\ ~Placed
                   /\ \E i \in DOMAIN out :
                        out[i] = Msg("err:mismatch", H, ActualHash)

(***************************************************************************)
(* C5: expected and actual hash that differ only in letter case are equal  *)
(* for the verification, in either installer.                              *)
(***************************************************************************)
C5_CaseInsensitive ==
    (/\ ManifestRead /\ Cardinality(EntriesFor(manifest, archiveName)) = 1
     /\ SameIgnoringCase(TheEntryHash(manifest, archiveName), ActualHash))
    => ~VerifyError

(***************************************************************************)
(* C6: when a run has ended, the temporary directory it created is gone.   *)
(***************************************************************************)
C6_TmpDirRemoved == pc = "done" => tmpDir # "exists"

(***************************************************************************)
(* C7: normalising a normalised filename changes nothing, for the          *)
(* normalisation of either installer.                                      *)
(***************************************************************************)
C7_NormalizeIdempotent ==
    Len(normPs) = 2 => (normPs[2] = normPs[1] /\ normSh[2] = normSh[1])

\* whether the installer of the run selects the line as an entry for f
Selects(line, f) ==
    IF installer = "ps1" THEN PsMatchingLines(<<line>>, f) # <<>>
    ELSE ShExpected(<<line>>, f) # <<>>

(***************************************************************************)
(* C8: a manifest line whose filename field is the expected name behind a  *)
(* leading *, ./ or .\ is selected as an entry for it by either installer. *)
(***************************************************************************)
C8_DecorationsSelected ==
    manifest # Null =>
        \A i \in DOMAIN manifest :
            IsEntryFor(manifest[i], archiveName) => Selects(manifest[i], archiveName)

\* install.ps1 has the archive and has looked at the toggle
ArchiveDownloaded == archiveDigest # Null /\ pc # "checkskip"

\* what holds of a run with the toggle set: the manifest is never asked
\* for, no verification error stops the run, only extraction or the search
\* for the binary can, and the bypass warning precedes placement
C9_SkipSet ==
    /\ ~Requested("manifest")
    /\ ~VerifyError
    /\ ArchiveDownloaded => Wrote("warn:skip-checksum")
    /\ Placed => Wrote("warn:skip-checksum")
    /\ (ArchiveDownloaded /\ Aborted)
         => (Wrote("err:no-tar") \/ Wrote("err:tar-failed") \/ Wrote("err:binary-not-found"))

\* what holds of a run with the toggle not set: verification is performed
\* and the binary is placed only once verified
C9_SkipNotSet ==
    /\ ~Wrote("warn:skip-checksum")
    /\ ArchiveDownloaded => Wrote("info:verifying")
    /\ (ArchiveDownloaded /\ pc # "manifest") => Requested("manifest")
    /\ Placed => verified

(***************************************************************************)
(* C9 as claimed (install.ps1): with MSGVAULT_SKIP_CHECKSUM equal to 1,    *)
(* true or yes the run reaches placement whatever the manifest and the     *)
(* hash are, and the bypass warning is written before the binary is        *)
(* placed; unset or with any other value, verification is performed.       *)
(***************************************************************************)
C9_SkipToggleAsClaimed ==
    installer = "ps1" => IF ToggleNamed(skipVal) THEN C9_SkipSet ELSE C9_SkipNotSet

(***************************************************************************)
(* C9 as amended: the same, the toggle being set when the value is 1, true *)
(* or yes in any letter case, with or without one final newline.           *)
(***************************************************************************)
C9_SkipToggle ==
    installer = "ps1" => IF ToggleAnyCase(skipVal) THEN C9_SkipSet ELSE C9_SkipNotSet

C9_Witness ==
    /\ installer = "ps1" /\ skipVal = <<"Y","e","s">>
    /\ pc = "done" /\ exitCode = "0" /\ Placed /\ ~verified
    /\ Wrote("warn:skip-checksum") /\ ~Requested("manifest")

\* the entries of a PATH value are its non-empty segments
PresentInPath(path, dir) ==
    \E i \in DOMAIN SplitSemi(path) :
        /\ SplitSemi(path)[i] # <<>>
        /\ SameIgnoringCase(TrimEndSep(SplitSemi(path)[i]), TrimEndSep(dir))

(***************************************************************************)
(* C10: Add-ToPath run twice with the same directory leaves the PATH of    *)
(* the first run and reports no change the second time; a directory that   *)
(* is present up to letter case and trailing separators is not appended.   *)
(***************************************************************************)
C10_AddToPathIdempotent ==
    /\ pathRuns >= 2 => (pathLog[3].path = pathLog[2].path /\ ~pathLog[3].changed)
    /\ (pathRuns >= 1 /\ PresentInPath(pathLog[1].path, pathDir))
         => (pathLog[2].path = pathLog[1].path /\ ~pathLog[2].changed)

\* the detection step of a run has read what the platform reports
Detected == installer \in {"ps1", "sh"} /\ pc # "start"

\* the architecture the platform reported is one the installer does not
\* support: Get-Architecture answered 386, detect_arch printed nothing
UnsupportedArch ==
    /\ Detected
    /\ \/ installer = "ps1" /\ arch = I386
       \/ installer = "sh" /\ arch = <<>>

\* the OS or architecture the platform reported is none of the values the
\* detection code names: RuntimeInformation's X64, X86 and Arm64 (or its
\* absence) and PROCESSOR_ARCHITECTURE ARM64 for install.ps1; Linux, Darwin
\* and x86_64, amd64, aarch64, arm64 for install.sh
Unrecognised ==
    /\ Detected
    /\ \/ /\ installer = "ps1"
          /\ reported.env # "ARM64"
          /\ reported.os \notin {"X64", "X86", "Arm64", "throws"}
       \/ /\ installer = "sh"
          /\ \/ reported.s \notin {"Linux", "Darwin"}
             \/ reported.m \notin {"x86_64", "amd64", "aarch64", "arm64"}

(***************************************************************************)
(* C11: in a run on an unsupported architecture no network request is      *)
(* ever made and the run can only end with exit code 1, in both            *)
(* installers.                                                             *)
(***************************************************************************)
C11_UnsupportedArchFatal ==
    UnsupportedArch => (net = <<>> /\ (pc = "done" => exitCode = "1"))

(***************************************************************************)
(* C12: a run in which the platform reported an OS or architecture outside *)
(* the recognised set is fatal: no archive name is built from a default    *)
(* platform identifier, no archive is requested, nothing is placed, and    *)
(* the run can only end with exit code 1.                                  *)
(***************************************************************************)
C12_UnrecognisedFatal ==
    Unrecognised =>
        /\ archiveName = <<>>
        /\ ~Requested("archive")
        /\ ~Placed
        /\ pc = "done" => exitCode = "1"

\* the tag without its leading marker character, and the names the
\* template {name}_{version}_{os}_{arch}.tar.gz and {base}/{tag}/{filename} give
WithoutMarker(tag) == IF tag # <<>> /\ Head(tag) = "v" THEN Tail(tag) ELSE tag
TemplateName(ver, o, a) ==
    <<"m","s","g","v","a","u","l","t","_">> \o ver \o <<"_">> \o o \o <<"_">> \o a
        \o <<".","t","a","r",".","g","z">>
TemplateUrl(tag, file) == ReleaseBase \o <<"/">> \o tag \o <<"/">> \o file
ExampleTag == <<"v","1",".","2",".","0">>
ExampleName ==
    <<"m","s","g","v","a","u","l","t","_","1",".","2",".","0","_",
      "l","i","n","u","x","_","a","m","d","6","4",".","t","a","r",".","g","z">>
\* the names have been derived
Derived == DOMAIN nameOut # {}

NamesAsTemplate ==
    /\ nameOut.psVersion = WithoutMarker(nameIn.tag)
    /\ nameOut.shVersion = WithoutMarker(nameIn.tag)
    /\ nameOut.psFile = TemplateName(WithoutMarker(nameIn.tag), Windows, nameIn.arch)
    /\ nameOut.shFile = TemplateName(WithoutMarker(nameIn.tag), nameIn.os, nameIn.arch)
    /\ nameOut.psUrl = TemplateUrl(nameIn.tag, nameOut.psFile)
    /\ nameOut.shUrl = TemplateUrl(nameIn.tag, nameOut.shFile)
    /\ (nameIn.tag = ExampleTag /\ nameIn.os = Linux /\ nameIn.arch = Amd64)
         => nameOut.shFile = ExampleName

(***************************************************************************)
(* C13: for every tag, both installers derive the same version, the tag    *)
(* without its leading marker character; the archive name is               *)
(* msgvault_{version}_{os}_{arch}.tar.gz and the URL {base}/{tag}/{name}   *)
(* with the unstripped tag.                                                *)
(***************************************************************************)
C13_Names == Derived => NamesAsTemplate

\* the run has ended with a non-zero exit code
Failed == pc = "done" /\ exitCode = "1"

(***************************************************************************)
(* C14: a run that failed before placement leaves the install directory as *)
(* it was before the run: it is not created, and the binary at the         *)
(* destination is neither removed nor changed.                             *)
(***************************************************************************)
C14_FailureLeavesInstallDir ==
    (Failed /\ ~Placed) =>
        /\ installDirExists = installDirExists0
        /\ destBinary = destBinary0

(***************************************************************************)
(* C15: when tar ends with a non-zero status the run is fatal and no       *)
(* binary is placed, whatever the failed extraction left behind; both      *)
(* installers.                                                             *)
(***************************************************************************)
C15_TarFailureFatal ==
    tarStatus = "failed" =>
        /\ destBinary = destBinary0
        /\ ~Wrote("info:complete")
        /\ pc = "done" => exitCode = "1"

(***************************************************************************)
(* C16: the binary is looked for anywhere in the extracted tree: an        *)
(* archive that holds msgvault at the top or inside a directory installs,  *)
(* and the run reports a missing binary only when it is nowhere in the     *)
(* tree; both installers.                                                  *)
(***************************************************************************)
C16_RecursiveSearch ==
    /\ (tarStatus = "ok" /\ tree \in {"top", "nested"}) =>
          /\ ~Wrote("err:binary-not-found")
          /\ pc = "done" => (Placed /\ exitCode = "0")
    /\ (tarStatus = "ok" /\ tree = "absent") =>
          /\ ~Placed
          /\ pc = "done" => (Wrote("err:binary-not-found") /\ exitCode = "1")

\* the run changed the persisted user PATH or the PATH of the session
PathModified == userPath # userPath0 \/ sessionPath # SessionPath0

(***************************************************************************)
(* C17: install.ps1 modifies the user PATH and the session PATH only in a  *)
(* run where MSGVAULT_NO_MODIFY_PATH is not set and the install directory  *)
(* is absent from the user PATH; with the toggle set both are unchanged;   *)
(* the "Restart your terminal" notice is written in exactly the runs that  *)
(* modified the PATH.                                                      *)
(***************************************************************************)
C17_PathModifiedOnlyWhenAbsent ==
    /\ PathModified =>
          /\ ~ToggleAnyCase(noModVal)
          /\ ~PresentInPath(userPath0, InstallDir)
          /\ userPath # userPath0 /\ sessionPath # SessionPath0
    /\ ToggleAnyCase(noModVal) => (userPath = userPath0 /\ sessionPath = SessionPath0)
    /\ Wrote("warn:restart-terminal") <=> PathModified

\* a run that appended the install directory and one that found it present
C17_Witness ==
    /\ installer = "ps1" /\ pc = "done" /\ exitCode = "0"
    /\ PathModified
    /\ Wrote("warn:restart-terminal")
    /\ userPath = userPath0 \o <<";">> \o InstallDir

\* what the claim C18 says of wait_until at every moment of a call
WaitBounded ==
    /\ wPolls <= 2 * wTimeout
    /\ wSeen => (wRet = "0" /\ wPc = "returned")
    /\ wRet = "0" => (wSeen /\ ~wWarned /\ wPolls = wElapsed + 1)
    /\ wRet = "1" => (~wSeen /\ wWarned /\ wPolls = 2 * wTimeout /\ wElapsed = 2 * wTimeout)
    /\ wRet = "none" => (~wWarned /\ wElapsed < 2 * wTimeout)
    /\ wPc = "poll" => wPolls = wElapsed
    /\ wPc = "sleep" => wPolls = wElapsed + 1
    /\ (wTimeout = DefaultTimeout /\ wRet = "1") => wPolls = 60

(***************************************************************************)
(* C18: a call of wait_until ends: with status 0 at the first poll that    *)
(* finds the pattern, else with the warning and status 1 after exactly     *)
(* 2 * timeout failed polls, each followed by one sleep of 0.5 s (60 polls *)
(* for the default timeout 30); it never polls more than 2 * timeout       *)
(* times.                                                                  *)
(***************************************************************************)
C18_WaitUntilTerminates == []WaitBounded /\ <>(wPc = "returned")

\* a call with the default timeout that timed out at the 60th failed poll
C18_Witness ==
    /\ wPc = "returned" /\ wRet = "1" /\ wWarned
    /\ wTimeout = DefaultTimeout /\ wPolls = 60 /\ ~wSeen

(***************************************************************************)
(* C19: once a wait_until of the screenshot script has timed out, no key   *)
(* is sent and no screenshot is captured any more, kill-session is not run *)
(* and the script has ended with a non-zero status.                        *)
(***************************************************************************)
C19_TimeoutEndsScript ==
    /\ [](hTimedOut => (hStatus = "1" /\ ~hKilled))
    /\ [][hTimedOut => (hKeys' = hKeys /\ hShots' = hShots /\ hKilled' = hKilled
                        /\ hStatus' = hStatus)]_vars

\* a run in which a wait_until timed out after keys were sent and
\* screenshots taken
C19_Witness ==
    /\ hTimedOut /\ hStatus = "1" /\ ~hKilled
    /\ hKeys > 0 /\ hShots > 0 /\ hIp < Len(Script)
    /\ Script[hIp] = "wait"

\* the #lightbox-overlay elements in the document
OverlaysInDocument == {i \in DOMAIN lbOverlays : lbOverlays[i].inDoc}

(***************************************************************************)
(* C20: after DOMContentLoaded and any number of astro:after-swap events   *)
(* the document holds at most one #lightbox-overlay, document has at most  *)
(* one Escape keydown listener, and every matching element in the document *)
(* that contains an image has exactly one click listener, so a click on it *)
(* opens the overlay once.                                                 *)
(***************************************************************************)
C20_InitLightboxIdempotent ==
    lbPhase = "ready" =>
        /\ Cardinality(OverlaysInDocument) <= 1
        /\ Len(lbKeydown) <= 1
        /\ \A e \in ElemIds :
             (lbElems[e].inDoc /\ lbElems[e].hasImg) => Len(lbElems[e].clicks) = 1
        /\ lbOpens <= 1

\* the overlay the page shows, and whether it is hidden
ShownOverlay == lbOverlays[GetOverlay(lbOverlays)]
OverlayHidden == GetOverlay(lbOverlays) = 0 \/ ShownOverlay.display = "none"

\* an Escape keydown while the overlay is hidden changes no overlay
EscapeWhileHiddenChangesNothing ==
    [][(PressEscape /\ OverlayHidden) => lbOverlays' = lbOverlays]_vars

(***************************************************************************)
(* C21: the overlay's display is 'none' or 'flex'; it is 'flex' exactly    *)
(* when the last of the user events (click on a bound element, click on    *)
(* the overlay, Escape) was a click on a bound element, and then the       *)
(* overlay image has that element's src and alt.  The events counted are   *)
(* those since the overlay in the document was made.  The claim's last     *)
(* part, Escape while hidden, is EscapeWhileHiddenChangesNothing.          *)
(***************************************************************************)
C21_OverlayDisplay ==
    (lbPhase = "ready" /\ GetOverlay(lbOverlays) # 0) =>
        /\ ShownOverlay.display \in {"none", "flex"}
        /\ ShownOverlay.display = "flex" <=> lbLast.kind = "element"
        /\ ShownOverlay.display = "flex" => ShownOverlay.img = lbLast.img

====
